---- MODULE Spec2Model ----
(***************************************************************************)
(* Multi-track playback clock, track volume router and annotation regions  *)
(* of the lung-listener editor (CenterStage, WaveformTrack, MasterControls,*)
(* TimelineTrack, LabelControlZone, RightPanel, App).                      *)
(*                                                                         *)
(* Times are integers in units of 50 ms (UnitsPerSec units per second), so *)
(* the 0.15 s seek tolerance is 3 units and the 5 s skip is 100 units.     *)
(* One action is one event handler together with the React render and the  *)
(* effects that the handler's state updates trigger (React 18 batches the  *)
(* updates of a handler into one render).  The one exception is the        *)
(* engine's 'ready' callback: it writes to the audio engine itself before  *)
(* React re-renders, so the callback (EngineReady) and the effects of the   *)
(* following render (FlushReady) are two steps.                            *)
(***************************************************************************)
EXTENDS Integers, Sequences, FiniteSets, TLC

\* ---------------------------------------------------------------- bounds
MaxFiles == 2
MaxRenders == 2
MaxTextLen == 18
MaxReaders == 2
MaxAlerts == 2
MaxLogs == 3

\* ------------------------------------------------------ program constants
UnitsPerSec == 20
SeekTolerance == 3
SkipUnits == 100
ZoomInit == 50
ZoomStep == 50
ZoomMax == 500
ZoomMin == 10
VolumeInit == 100

\* ------------------------------------------------------------ input sets
\* Engine clock granularity: one timeupdate tick is one second of audio.
TickUnits == UnitsPerSec
\* Decoded length of the audio of file f (files alternate between 2 s and 3 s).
FileDur(f) == IF f % 2 = 1 THEN 2 * UnitsPerSec ELSE 3 * UnitsPerSec
Percents == {0, 50, 100}
Volumes == {0, 100}

Tracks == {"raw", "filtered"}
NoFile == 0
NoUrl == [id |-> 0, file |-> 0]
NULL == -1

Abs(x) == IF x < 0 THEN -x ELSE x
Min(a, b) == IF a < b THEN a ELSE b
Max(a, b) == IF a > b THEN a ELSE b
Other(tr) == IF tr = "raw" THEN "filtered" ELSE "raw"

\* ------------------------------------------------------------ label text
\* A label text is a sequence of lines; a line is the sequence of fields
\* that line.split(/[\t\s]+/) yields.  A field is a numeric token Num(v)
\* (times in units) or NaN, a token parseFloat/parseInt cannot read.
\* The empty line is <<>>.
Num(v) == [num |-> TRUE, val |-> v]
NaN == [num |-> FALSE, val |-> 0]

RECURSIVE ParseLabelLines(_, _)
ParseLabelLines(lines, idx) ==
    IF idx > Len(lines) THEN <<>>
    ELSE LET line == lines[idx]
             rest == ParseLabelLines(lines, idx + 1)
         IN  IF Len(line) = 0 THEN rest
             ELSE IF Len(line) < 4 THEN rest
             ELSE IF ~line[1].num \/ ~line[2].num THEN rest
             ELSE LET start == line[1].val
                      end == line[2].val
                      idBase == <<"clinical", idx - 1, start, end>>
                      wz == IF line[4].num /\ line[4].val = 1
                            THEN <<[id |-> Append(idBase, "wheeze"), start |-> start,
                                    end |-> end, content |-> "Wheeze"]>>
                            ELSE <<>>
                      cr == IF line[3].num /\ line[3].val = 1
                            THEN <<[id |-> Append(idBase, "crackle"), start |-> start,
                                    end |-> end, content |-> "Crackle"]>>
                            ELSE <<>>
                  IN  wz \o cr \o rest

parseLabelString(text) == ParseLabelLines(text, 1)

\* Label files offered to the import: the spec's example (0.05-0.80 with
\* crackle flag 0 / wheeze flag 1, then 1.20-1.50 with crackle 1 / wheeze 0)
\* and a file whose only region starts after the end of every audio file.
LabelExample == << <<Num(1), Num(16), Num(0), Num(1)>>, <<Num(24), Num(30), Num(1), Num(0)>> >>
LabelLate == << <<>>, <<NaN, Num(3)>>, <<Num(90), Num(95), Num(1), Num(1)>> >>
LabelTexts == {LabelExample, LabelLate}
LabelName(text) ==
    IF text = LabelExample THEN "example.txt"
    ELSE IF text = LabelLate THEN "late.txt"
    ELSE "labels.txt"
NoLabel == "none"

\* Demo cases of the sidebar: the label text their labelUrl serves and the
\* patient id that is both demoCase.patientId and the first part of the
\* case's ICBHI file name.
NoCase == "none"
DemoCases == {"Case 1", "Case 2"}
CaseLabels(c) == IF c = "Case 1" THEN LabelExample ELSE LabelLate
NoPatient == 0
DemoPatient(labelText) == IF labelText = LabelExample THEN 218 ELSE 175
CasePatient(c) == DemoPatient(CaseLabels(c))

\* Lines of label files a user may drop on the timeline: a wheeze line, a
\* crackle line, both flags, no flag, an empty line, a three-field line, a
\* line whose first field is not a number (as after leading white space), a
\* line whose crackle field is not a number, a line whose end precedes its
\* start, and a five-field line.
LabelLines ==
    { <<Num(1), Num(16), Num(0), Num(1)>>,
      <<Num(24), Num(30), Num(1), Num(0)>>,
      <<Num(1), Num(16), Num(1), Num(1)>>,
      <<Num(1), Num(16), Num(0), Num(0)>>,
      <<>>,
      <<Num(1), Num(16), Num(1)>>,
      <<NaN, Num(16), Num(1), Num(1)>>,
      <<Num(1), Num(16), NaN, Num(1)>>,
      <<Num(16), Num(1), Num(0), Num(1)>>,
      <<Num(1), Num(16), Num(1), Num(0), Num(7)>> }
\* The text FileReader yields for an empty file: the empty string.
EmptyText == <<>>
\* Dropped label files: every one-line file, the two multi-line files and
\* the empty file.
LabelInputs == {<<l>> : l \in LabelLines} \cup LabelTexts \cup {EmptyText}

\* --------------------------------------------------------------- AI text
\* The streamed text is a sequence of one-character strings.  The three
\* characters "{", "F", "}" in a row stand for a complete, well-formed
\* {"recommendedFilter": {...}} JSON block; "~" stands for an en or em dash.
IsDigit(c) == c \in {"0", "1", "2", "3", "4", "5", "6", "7", "8", "9"}
IsSpace(c) == c \in {" ", "\t", "\n"}
DigitVal(c) ==
    CASE c = "0" -> 0 [] c = "1" -> 1 [] c = "2" -> 2 [] c = "3" -> 3 [] c = "4" -> 4
      [] c = "5" -> 5 [] c = "6" -> 6 [] c = "7" -> 7 [] c = "8" -> 8 [] c = "9" -> 9

At(s, i) == IF i >= 1 /\ i <= Len(s) THEN s[i] ELSE "$"

RECURSIVE SkipSpace(_, _)
SkipSpace(s, i) == IF IsSpace(At(s, i)) THEN SkipSpace(s, i + 1) ELSE i

\* Faulty variant of MatchStamp: one digit is accepted as the seconds.
MatchStamp_ShortSeconds(s, i) ==
    LET n == IF IsDigit(At(s, i)) /\ IsDigit(At(s, i + 1)) /\ At(s, i + 2) = ":" THEN 2
             ELSE IF IsDigit(At(s, i)) /\ At(s, i + 1) = ":" THEN 1
             ELSE 0
    IN  IF n = 0 THEN <<>>
        ELSE IF ~IsDigit(At(s, i + n + 1)) THEN <<>>
        ELSE LET mins == IF n = 2 THEN 10 * DigitVal(s[i]) + DigitVal(s[i + 1])
                         ELSE DigitVal(s[i])
             IN  IF IsDigit(At(s, i + n + 2))
                 THEN <<mins * 60 + 10 * DigitVal(s[i + n + 1]) + DigitVal(s[i + n + 2]),
                        i + n + 3>>
                 ELSE <<mins * 60 + DigitVal(s[i + n + 1]), i + n + 2>>

\* \d{1,2} followed by a colon at position i: the number of digits, or 0.
MinuteDigits(s, i) ==
    IF IsDigit(At(s, i)) /\ IsDigit(At(s, i + 1)) /\ At(s, i + 2) = ":" THEN 2
    ELSE IF IsDigit(At(s, i)) /\ At(s, i + 1) = ":" THEN 1
    ELSE 0

\* :(\d{2}) after n minute digits at position i, and the value
\* parseInt(minutes) * 60 + parseInt(seconds).
StampAfter(s, i, n) ==
    IF n = 0 THEN <<>>
    ELSE IF ~(IsDigit(At(s, i + n + 1)) /\ IsDigit(At(s, i + n + 2))) THEN <<>>
    ELSE LET mins == IF n = 2 THEN 10 * DigitVal(s[i]) + DigitVal(s[i + 1])
                     ELSE DigitVal(s[i])
             secs == 10 * DigitVal(s[i + n + 1]) + DigitVal(s[i + n + 2])
         IN  <<mins * 60 + secs, i + n + 3>>

\* (\d{1,2}):(\d{2}) at position i: <<value in seconds, next position>> or <<>>.
MatchStamp(s, i) == StampAfter(s, i, MinuteDigits(s, i))

\* (?:[-–—]|to) at position i, case-insensitive: next position or 0.
MatchSep(s, i) ==
    IF At(s, i) \in {"-", "~"} THEN i + 1
    ELSE IF At(s, i) \in {"t", "T"} /\ At(s, i + 1) \in {"o", "O"} THEN i + 2
    ELSE 0

\* The pattern after its separator: \s* and the second stamp b.
PairEnd(a, b) == IF b = <<>> THEN <<>> ELSE <<a[1], b[1], b[2]>>

\* The pattern after its first stamp a: \s*, the separator ending at j, and
\* the rest.
PairAfterSep(s, a, j) ==
    IF j = 0 THEN <<>> ELSE PairEnd(a, MatchStamp(s, SkipSpace(s, j)))

\* The pattern after its first stamp a, or no match without one.
PairAfterStamp(s, a) ==
    IF a = <<>> THEN <<>> ELSE PairAfterSep(s, a, MatchSep(s, SkipSpace(s, a[2])))

\* The whole pattern anchored at position i: [start, end, next] or <<>>.
MatchPair(s, i) == PairAfterStamp(s, MatchStamp(s, i))

HasId(regs, id) == \E k \in 1..Len(regs) : regs[k].id = id

\* Faulty variant of ParseLoop: a pair already collected is added again.
RECURSIVE ParseLoop_NoDedup(_, _, _)
ParseLoop_NoDedup(s, i, acc) ==
    IF i > Len(s) THEN acc
    ELSE LET m == MatchPair(s, i)
         IN  IF m = <<>> THEN ParseLoop_NoDedup(s, i + 1, acc)
             ELSE LET start == m[1] * UnitsPerSec
                      end == m[2] * UnitsPerSec
                      id == <<"ai-region", m[1], m[2]>>
                  IN  IF end <= start THEN ParseLoop_NoDedup(s, m[3], acc)
                      ELSE ParseLoop_NoDedup(s, m[3],
                             Append(acc, [id |-> id, start |-> start, end |-> end,
                                          content |-> "AI Diagnosis"]))

\* The region pushed for a match from start to end seconds.
AiRegion(start, end) ==
    [id |-> <<"ai-region", start, end>>, start |-> start * UnitsPerSec,
     end |-> end * UnitsPerSec, content |-> "AI Diagnosis"]

\* The while (regex.exec(...)) loop: i is regex.lastIndex + 1, and
\* ParseMatch is its body for the match m found at or after i.
RECURSIVE ParseLoop(_, _, _)
RECURSIVE ParseMatch(_, _, _, _)
ParseMatch(s, i, acc, m) ==
    IF m = <<>> THEN ParseLoop(s, i + 1, acc)
    ELSE IF m[2] * UnitsPerSec <= m[1] * UnitsPerSec THEN ParseLoop(s, m[3], acc)
    ELSE IF HasId(acc, <<"ai-region", m[1], m[2]>>) THEN ParseLoop(s, m[3], acc)
    ELSE ParseLoop(s, m[3], Append(acc, AiRegion(m[1], m[2])))

ParseLoop(s, i, acc) ==
    IF i > Len(s) THEN acc ELSE ParseMatch(s, i, acc, MatchPair(s, i))

ParseAiText(s) == ParseLoop(s, 1, <<>>)

\* if (isDifferent) setAiRegions(parsed).
SetIfDifferent(parsed, regs) == IF parsed # regs THEN parsed ELSE regs

\* The AI region parsing effect run to its fixpoint for text s and the
\* current aiRegions value.
ParseEffect(s, regs) ==
    IF Len(s) = 0 THEN (IF Len(regs) > 0 THEN <<>> ELSE regs)
    ELSE SetIfDifferent(ParseAiText(s), regs)

\* Entries of the CenterStage log: addLog(`Error: ...`) and
\* addLog(`Gemini found ${n} temporal anomalies.`).
ErrorEntry == [kind |-> "error", n |-> 0]
FoundEntry(n) == [kind |-> "found", n |-> n]

\* if (isDifferent && parsed.length > aiRegions.length) addLog(...).
LogIfLonger(parsed, regs, lg) ==
    IF parsed # regs /\ Len(parsed) > Len(regs)
    THEN Append(lg, FoundEntry(Len(parsed)))
    ELSE lg

\* Faulty variant of ParseLogs: every replacement of aiRegions is logged.
ParseLogs_EveryChange(s, regs, lg) ==
    IF Len(s) = 0 THEN (IF Len(regs) > 0 THEN Append(lg, FoundEntry(0)) ELSE lg)
    ELSE LET parsed == ParseAiText(s)
         IN  IF parsed # regs THEN Append(lg, FoundEntry(Len(parsed))) ELSE lg

\* The log after the AI region parsing effect ran to its fixpoint: one
\* entry when the parsed array differs from aiRegions and is longer.
ParseLogs(s, regs, lg) ==
    IF Len(s) = 0 THEN lg ELSE LogIfLonger(ParseAiText(s), regs, lg)

HasFilterJson(s) == \E k \in 1..Len(s) : At(s, k) = "{" /\ At(s, k + 1) = "F" /\ At(s, k + 2) = "}"

\* Chunks the model streams: a complete timestamp pair 0:01-0:03 and the
\* trailing JSON block.
ChunkPair == <<"0", ":", "0", "1", "-", "0", ":", "0", "3">>
ChunkJson == <<"{", "F", "}">>
Chunks == {ChunkPair, ChunkJson}
\* Chunks of analysis prose: "at 0:0" followed by "2 - 0:05" (a pair split
\* inside its first timestamp), "0:01-0:2" followed by "0" (a pair split
\* inside its last timestamp), the reversed pair 0:03-0:01 and the pair
\* 1:05to2:00.
ChunkAt == <<"a", "t", " ", "0", ":", "0">>
ChunkTail == <<"2", " ", "-", " ", "0", ":", "0", "5">>
ChunkHead == <<"0", ":", "0", "1", "-", "0", ":", "2">>
ChunkDigit == <<"0">>
ChunkRev == <<"0", ":", "0", "3", "-", "0", ":", "0", "1">>
ChunkTo == <<"1", ":", "0", "5", "t", "o", "2", ":", "0", "0">>
AiChunks == {ChunkPair, ChunkAt, ChunkTail, ChunkHead, ChunkDigit, ChunkRev, ChunkTo}

\* ------------------------------------------------------------------ state
VARIABLES
    currentFile,        \* App: id of the loaded file, NoFile when none
    fileCount,          \* number of files loaded so far (next id - 1)
    clinicalRegions,    \* App: imported clinical regions
    currentLabelFile,   \* App: name of the imported label file, NoLabel when none
    aiAnalysisOutput,   \* App: accumulated AI text
    aiFilterConfig,     \* App: TRUE iff a filter config object is set
    analysisStatus,     \* App: "IDLE", "ANALYZING", "COMPLETED", "ERROR"
    aiRegions,          \* CenterStage
    filteredAudioUrl,   \* CenterStage: [id, file] of the render, NoUrl when null
    isProcessingFilter, \* CenterStage
    activeAudioSource,  \* CenterStage: "raw" or "filtered"
    isPlaying,          \* CenterStage master clock
    currentTime,
    duration,
    volume,
    isMuted,
    zoomLevel,
    seekTarget,         \* NULL when null
    renders,            \* processOfflineAudio calls in flight: set of [id, file]
    renderCount,        \* number of renders started so far
    engines,            \* per track: the WaveformTrack's WaveSurfer instance
    flush,              \* track whose 'ready' callback ran and whose effects are pending
    containerWidth,     \* TimelineTrack: observed width in quarter pixels
    readers,            \* LabelControlZone: label texts whose FileReader is pending
    loadingCase,        \* Sidebar: demo case being loaded, NoCase when null
    loadPhase,          \* Sidebar.loadRemoteCase: "idle", "audio" or "labels" (the pending fetch)
    alertCount,         \* number of alert() calls of loadRemoteCase so far
    patientId,          \* App: patientData.id, NoPatient when ''
    logs,               \* CenterStage: the log's render-error and region-count entries
    labelZone           \* mounted LabelControlZone: its error message, and the pending
                        \* reads started by a zone that has been unmounted since

appVars == <<currentFile, fileCount, clinicalRegions, currentLabelFile,
             aiAnalysisOutput, aiFilterConfig, analysisStatus>>
clockVars == <<isPlaying, currentTime, duration, volume, isMuted, zoomLevel, seekTarget>>
filterVars == <<filteredAudioUrl, isProcessingFilter, activeAudioSource, renders, renderCount>>
sidebarVars == <<loadingCase, loadPhase, alertCount>>
vars == <<appVars, clockVars, filterVars, aiRegions, engines, flush, containerWidth, readers,
          sidebarVars, patientId, logs, labelZone>>

\* ---------------------------------------------------------------- tracks
\* What a render of CenterStage hands to the two WaveformTrack children.
View == [file |-> currentFile, url |-> filteredAudioUrl, proc |-> isProcessingFilter,
         active |-> activeAudioSource, playing |-> isPlaying, vol |-> volume,
         muted |-> isMuted, seek |-> seekTarget]

\* Faulty variant of VolumeProp: the mute flag is not consulted.
VolumeProp_IgnoresMute(tr, v) == IF v.active = tr THEN v.vol ELSE 0

\* volume={activeAudioSource === tr ? (isMuted ? 0 : volume) : 0}
VolumeProp(tr, v) == IF v.active = tr THEN (IF v.muted THEN 0 ELSE v.vol) ELSE 0

\* onTimeUpdate={activeAudioSource === tr ? handleTimeUpdate : undefined}
TimeUpdateProp(tr, v) == v.active = tr

\* The raw track is rendered while a file is loaded; the filtered track
\* while a file is loaded, no render is in progress and a URL exists.
Mounted(tr, v) ==
    IF tr = "raw" THEN v.file # NoFile
    ELSE v.file # NoFile /\ ~v.proc /\ v.url # NoUrl

TrackUrl(tr, v) ==
    IF tr = "raw" THEN [kind |-> "file", id |-> v.file, file |-> v.file]
    ELSE [kind |-> "render", id |-> v.url.id, file |-> v.url.file]

NoEngine == [exists |-> FALSE, url |-> [kind |-> "none", id |-> 0, file |-> 0], dur |-> 0,
             ready |-> FALSE, time |-> 0, playing |-> FALSE, vol |-> 0,
             listener |-> FALSE, capVol |-> 0, tu |-> FALSE]

\* WaveSurfer.create + ws.load in the init effect: the 'ready' handler and
\* the timeupdate listener close over the props of the render v.  No volume
\* has been applied to the engine yet (vol = NULL).
NewEngine(tr, url, v) ==
    [exists |-> TRUE, url |-> url, dur |-> FileDur(url.file),
     ready |-> FALSE, time |-> 0, playing |-> FALSE, vol |-> NULL,
     listener |-> TimeUpdateProp(tr, v), capVol |-> VolumeProp(tr, v), tu |-> FALSE]

\* HTMLMediaElement semantics behind ws.setTime / ws.play / ws.pause.
EngineSetTime(e, t) == [e EXCEPT !.time = Max(0, Min(t, e.dur))]
EnginePlay(e) == IF e.time >= e.dur THEN [e EXCEPT !.time = 0, !.playing = TRUE]
                 ELSE [e EXCEPT !.playing = TRUE]
EnginePause(e) == [e EXCEPT !.playing = FALSE]

\* Faulty variant of PlaySync: the effect does not depend on isReady.
PlaySync_NoReadyDep(e, old, new, all) ==
    IF new.playing # old.playing
    THEN (IF new.playing THEN EnginePlay(e) ELSE EnginePause(e))
    ELSE e

\* Master Clock Sync: Play/Pause effect (deps [isPlaying, isReady]).
PlaySync(e, old, new, all) ==
    IF all \/ new.playing # old.playing
    THEN (IF new.playing THEN EnginePlay(e) ELSE EnginePause(e))
    ELSE e

\* Master Clock Sync: Volume effect (deps [volume, isReady]).
VolumeSync(tr, e, old, new, all) ==
    IF all \/ VolumeProp(tr, new) # VolumeProp(tr, old)
    THEN [e EXCEPT !.vol = VolumeProp(tr, new)]
    ELSE e

\* Master Clock Sync: Seeking effect (deps [seekTo, isReady]).
SeekSync(e, old, new, all) ==
    IF (all \/ new.seek # old.seek) /\ new.seek # NULL
       /\ Abs(e.time - new.seek) > SeekTolerance
    THEN EngineSetTime(e, new.seek)
    ELSE e

\* The three sync effects of a ready track, in declaration order.
SyncEffects(tr, e, old, new, all) ==
    SeekSync(VolumeSync(tr, PlaySync(e, old, new, all), old, new, all), old, new, all)

\* One track across a commit: old is the previously rendered view, new the
\* view after the handler and its effects, cap the render whose props a
\* newly created engine captures.
SyncTrack(tr, e, old, cap, new) ==
    IF ~Mounted(tr, new) THEN NoEngine
    ELSE IF ~e.exists \/ e.url # TrackUrl(tr, new) THEN NewEngine(tr, TrackUrl(tr, new), cap)
    ELSE IF ~e.ready THEN e
    ELSE SyncEffects(tr, e, old, new, FALSE)

SyncFrom(base, cap) ==
    engines' = [tr \in Tracks |-> SyncTrack(tr, base[tr], View, cap, View')]

SyncEngines(cap) == SyncFrom(engines, cap)

\* The engine has emitted 'ready'.
Loaded(e) == e.exists /\ e.ready

\* No callback is half-way: the effects after a 'ready' have run and the
\* timeupdate events of the last tick have been delivered.
Quiet == flush = "none" /\ \A tr \in Tracks : ~engines[tr].tu

Init ==
    /\ currentFile = NoFile
    /\ fileCount = 0
    /\ clinicalRegions = <<>>
    /\ currentLabelFile = NoLabel
    /\ aiAnalysisOutput = <<>>
    /\ aiFilterConfig = FALSE
    /\ analysisStatus = "IDLE"
    /\ aiRegions = <<>>
    /\ filteredAudioUrl = NoUrl
    /\ isProcessingFilter = FALSE
    /\ activeAudioSource = "raw"
    /\ isPlaying = FALSE
    /\ currentTime = 0
    /\ duration = 0
    /\ volume = VolumeInit
    /\ isMuted = FALSE
    /\ zoomLevel = ZoomInit
    /\ seekTarget = NULL
    /\ renders = {}
    /\ renderCount = 0
    /\ engines = [tr \in Tracks |-> NoEngine]
    /\ flush = "none"
    /\ containerWidth = 0
    /\ readers = {}
    /\ loadingCase = NoCase
    /\ loadPhase = "idle"
    /\ alertCount = 0
    /\ patientId = NoPatient
    /\ logs = <<>>
    /\ labelZone = [error |-> "none", stale |-> {}]

\* ------------------------------------------------------------ file load
\* Faulty variant of ResetOnFileChange: the zoom level survives the file change.
ResetOnFileChange_KeepsZoom ==
    /\ aiRegions' = ParseEffect(aiAnalysisOutput, <<>>)
    /\ filteredAudioUrl' = NoUrl
    /\ duration' = 0
    /\ seekTarget' = NULL
    /\ isPlaying' = FALSE
    /\ currentTime' = 0
    /\ activeAudioSource' = "raw"
    /\ UNCHANGED zoomLevel
    /\ logs' = ParseLogs(aiAnalysisOutput, <<>>, <<>>)

\* The file-change reset effect of CenterStage, followed by the AI region
\* parsing effect that the new aiRegions array triggers.
ResetOnFileChange ==
    /\ aiRegions' = ParseEffect(aiAnalysisOutput, <<>>)
    /\ filteredAudioUrl' = NoUrl
    /\ duration' = 0
    /\ seekTarget' = NULL
    /\ isPlaying' = FALSE
    /\ currentTime' = 0
    /\ activeAudioSource' = "raw"
    /\ zoomLevel' = ZoomInit
    /\ logs' = ParseLogs(aiAnalysisOutput, <<>>, <<>>)

\* Which LabelControlZone instance is mounted: none without a file, the
\* drop-zone overlay of the TimelineTrack while showDropZone holds, the
\* zone in the corner of the lanes otherwise.
Zone(f, label, regs) ==
    IF f = NoFile THEN "none"
    ELSE IF label = NoLabel /\ Len(regs) = 0 THEN "overlay"
    ELSE "corner"

\* A commit in which the mounted zone is replaced: the new instance has no
\* error message, and the reads the old one started can no longer set one.
ZoneSync ==
    labelZone' = IF Zone(currentFile', currentLabelFile', aiRegions')
                      = Zone(currentFile, currentLabelFile, aiRegions)
                  THEN labelZone
                  ELSE [error |-> "none", stale |-> readers']

\* setCurrentFile(f) with the label state regs/label, the render in which
\* the raw track's engine is created (before the reset effect has run),
\* and the reset effect.  Without a file the TimelineTrack is unmounted and
\* its observed width is lost.
FileChange(f, regs, label) ==
    /\ currentFile' = f
    /\ clinicalRegions' = regs
    /\ currentLabelFile' = label
    /\ ResetOnFileChange
    /\ UNCHANGED <<aiAnalysisOutput, aiFilterConfig, analysisStatus, volume, isMuted,
                   isProcessingFilter, renders, renderCount, flush>>
    /\ containerWidth' = IF f = NoFile THEN 0 ELSE containerWidth
    /\ UNCHANGED readers
    /\ labelZone' = IF {Zone(f, label, aiRegions), Zone(f, label, <<>>),
                        Zone(f, label, aiRegions')}
                         = {Zone(currentFile, currentLabelFile, aiRegions)}
                    THEN labelZone
                    ELSE [error |-> "none", stale |-> readers]
    /\ SyncEngines([View EXCEPT !.file = f])

\* CenterStage.processFiles: the drop zone is shown only while no file is loaded.
ProcessFiles ==
    /\ Quiet
    /\ currentFile = NoFile
    /\ fileCount < MaxFiles
    /\ fileCount' = fileCount + 1
    /\ FileChange(fileCount + 1, <<>>, NoLabel)
    /\ UNCHANGED <<sidebarVars, patientId>>

\* App.handleLoadDemo with the audio file and label text of a demo case,
\* and App's metadata effect, which reads the patient id off the ICBHI
\* file name.
HandleLoadDemo(labelText) ==
    /\ Quiet
    /\ fileCount < MaxFiles
    /\ fileCount' = fileCount + 1
    /\ FileChange(fileCount + 1, parseLabelString(labelText), LabelName(labelText))
    /\ patientId' = DemoPatient(labelText)

\* Sidebar.loadRemoteCase with both fetches succeeding, taken as one step:
\* loadingCase is set and is null again at the end.
LoadDemo(labelText) ==
    /\ loadPhase = "idle"
    /\ HandleLoadDemo(labelText)
    /\ UNCHANGED sidebarVars

\* Sidebar.loadRemoteCase up to its first await; the demo buttons are
\* disabled while a case is loading.
LoadRemoteCase(c) ==
    /\ Quiet
    /\ loadingCase = NoCase
    /\ loadingCase' = c
    /\ loadPhase' = "audio"
    /\ UNCHANGED <<appVars, clockVars, filterVars, aiRegions, engines, flush, containerWidth,
                   readers, alertCount, patientId, logs, labelZone>>

\* The catch and finally blocks of loadRemoteCase.
LoadFailed ==
    /\ alertCount < MaxAlerts
    /\ alertCount' = alertCount + 1
    /\ loadingCase' = NoCase
    /\ loadPhase' = "idle"
    /\ UNCHANGED <<appVars, clockVars, filterVars, aiRegions, engines, flush, containerWidth,
                   readers, patientId, logs, labelZone>>

\* Faulty variant of AudioFetched: the response status is not checked.
AudioFetched_IgnoresStatus(ok) ==
    /\ Quiet
    /\ loadPhase = "audio"
    /\ loadPhase' = "labels"
    /\ UNCHANGED <<appVars, clockVars, filterVars, aiRegions, engines, flush, containerWidth,
                   readers, loadingCase, alertCount, patientId, logs, labelZone>>

\* Step A: the audio fetch settles; on success the label fetch starts.
AudioFetched(ok) ==
    /\ Quiet
    /\ loadPhase = "audio"
    /\ IF ok
       THEN /\ loadPhase' = "labels"
            /\ UNCHANGED <<appVars, clockVars, filterVars, aiRegions, engines, flush,
                           containerWidth, readers, loadingCase, alertCount, patientId, logs, labelZone>>
       ELSE LoadFailed

\* Step B settles; on success step C: onLoadDemo, setPatientData and the
\* finally block.
LabelsFetched(ok) ==
    /\ Quiet
    /\ loadPhase = "labels"
    /\ IF ok
       THEN /\ HandleLoadDemo(CaseLabels(loadingCase))
            /\ loadingCase' = NoCase
            /\ loadPhase' = "idle"
            /\ UNCHANGED alertCount
       ELSE LoadFailed

\* CenterStage.clearFile
ClearFile ==
    /\ Quiet
    /\ currentFile # NoFile
    /\ UNCHANGED fileCount
    /\ FileChange(NoFile, <<>>, NoLabel)
    /\ UNCHANGED <<sidebarVars, patientId>>

\* ----------------------------------------------------------- audio engine
\* ws.on('ready'): setIsReady(true), onReady(d) (raw track only), and
\* ws.setVolume(volume) with the volume captured when the engine was created.
EngineReady(tr) ==
    /\ Quiet
    /\ engines[tr].exists /\ ~engines[tr].ready
    /\ engines' = [engines EXCEPT ![tr].ready = TRUE, ![tr].vol = engines[tr].capVol]
    /\ duration' = IF tr = "raw" THEN engines[tr].dur ELSE duration
    /\ flush' = tr
    /\ UNCHANGED <<appVars, filterVars, aiRegions, containerWidth, readers, sidebarVars, patientId, logs, labelZone, isPlaying, currentTime, volume,
                   isMuted, zoomLevel, seekTarget>>

\* The render after setIsReady(true): the play, volume and seek effects of
\* that track all run because isReady changed.
FlushReady ==
    /\ flush # "none"
    /\ engines' = [engines EXCEPT ![flush] = SyncEffects(flush, engines[flush], View, View, TRUE)]
    /\ flush' = "none"
    /\ UNCHANGED <<appVars, clockVars, filterVars, aiRegions, containerWidth, readers, sidebarVars, patientId, logs, labelZone>>

\* Real time passes: every playing engine advances by one tick, stops at the
\* end of its audio, and emits a timeupdate if a listener was registered.
\* The emitted events are delivered (TimeUpdate), in either order, before
\* any other callback runs.
Advance(e) ==
    IF e.exists /\ e.ready /\ e.playing
    THEN [e EXCEPT !.time = Min(e.time + TickUnits, e.dur),
                   !.playing = e.time + TickUnits < e.dur,
                   !.tu = e.listener]
    ELSE e

Tick ==
    /\ Quiet
    /\ \E tr \in Tracks : engines[tr].exists /\ engines[tr].ready /\ engines[tr].playing
    /\ engines' = [tr \in Tracks |-> Advance(engines[tr])]
    /\ UNCHANGED <<appVars, clockVars, filterVars, aiRegions, flush, containerWidth, readers, sidebarVars, patientId, logs, labelZone>>

\* ws.on('timeupdate', time => onTimeUpdate(time)) -> handleTimeUpdate.
TimeUpdate(tr) ==
    /\ flush = "none"
    /\ engines[tr].tu
    /\ currentTime' = engines[tr].time
    /\ engines' = [engines EXCEPT ![tr].tu = FALSE]
    /\ UNCHANGED <<appVars, filterVars, aiRegions, flush, containerWidth, readers, sidebarVars, patientId, logs, labelZone, isPlaying, duration, volume,
                   isMuted, zoomLevel, seekTarget>>

\* ---------------------------------------------------------- master clock
\* CenterStage.handleSeek and the seek effects of the tracks.
HandleSeek(base, t) ==
    /\ seekTarget' = t
    /\ currentTime' = t
    /\ UNCHANGED <<appVars, filterVars, aiRegions, flush, containerWidth, readers, sidebarVars, patientId, logs, labelZone, isPlaying, duration, volume,
                   isMuted, zoomLevel>>
    /\ SyncFrom(base, View')

\* MasterControls.handleSeekChange: the scrubber at percent p.
SeekScrub(p) ==
    /\ Quiet
    /\ currentFile # NoFile
    /\ HandleSeek(engines, (p * duration) \div 100)

\* The scrubber used while every mounted track's engine is ready, so that
\* the seek effect of every listening track runs in the commit of the seek.
SeekAllReady(p) ==
    /\ \A tr \in Tracks : engines[tr].exists => engines[tr].ready
    /\ SeekScrub(p)

\* MasterControls skip buttons.
SkipBack ==
    /\ Quiet
    /\ currentFile # NoFile
    /\ HandleSeek(engines, Max(0, currentTime - SkipUnits))

SkipForward ==
    /\ Quiet
    /\ currentFile # NoFile
    /\ HandleSeek(engines, Min(duration, currentTime + SkipUnits))

\* TimelineTrack: regions are drawn when the drop zone overlay is not shown.
ShownRegions ==
    IF currentLabelFile = NoLabel /\ Len(aiRegions) = 0 THEN {}
    ELSE {clinicalRegions[k] : k \in 1..Len(clinicalRegions)}
         \cup {aiRegions[k] : k \in 1..Len(aiRegions)}

\* TimelineTrack region onClick: onSeek(region.start).
RegionClick(r) ==
    /\ Quiet
    /\ currentFile # NoFile
    /\ r \in ShownRegions
    /\ HandleSeek(engines, r.start)

\* ws.on('interaction'): the user clicked the waveform at t, WaveSurfer has
\* already moved that engine, then onSeek(ws.getCurrentTime()).
Interaction(tr, t) ==
    /\ Quiet
    /\ engines[tr].exists /\ engines[tr].ready
    /\ t \in {(p * engines[tr].dur) \div 100 : p \in Percents}
    /\ HandleSeek([engines EXCEPT ![tr].time = t], t)

\* CenterStage.handleTogglePlay
TogglePlay ==
    /\ Quiet
    /\ currentFile # NoFile
    /\ isPlaying' = ~isPlaying
    /\ UNCHANGED <<appVars, filterVars, aiRegions, flush, containerWidth, readers, sidebarVars, patientId, logs, labelZone, currentTime, duration, volume,
                   isMuted, zoomLevel, seekTarget>>
    /\ SyncEngines(View')

\* onVolumeChange={setVolume}
SetVolume(v) ==
    /\ Quiet
    /\ currentFile # NoFile
    /\ v # volume
    /\ volume' = v
    /\ UNCHANGED <<appVars, filterVars, aiRegions, flush, containerWidth, readers, sidebarVars, patientId, logs, labelZone, isPlaying, currentTime, duration,
                   isMuted, zoomLevel, seekTarget>>
    /\ SyncEngines(View')

\* onToggleMute={() => setIsMuted(!isMuted)}
ToggleMute ==
    /\ Quiet
    /\ currentFile # NoFile
    /\ isMuted' = ~isMuted
    /\ UNCHANGED <<appVars, filterVars, aiRegions, flush, containerWidth, readers, sidebarVars, patientId, logs, labelZone, isPlaying, currentTime, duration,
                   volume, zoomLevel, seekTarget>>
    /\ SyncEngines(View')

\* CenterStage.handleZoomIn / handleZoomOut
HandleZoomIn ==
    /\ Quiet
    /\ currentFile # NoFile
    /\ zoomLevel' = Min(zoomLevel + ZoomStep, ZoomMax)
    /\ UNCHANGED <<appVars, filterVars, aiRegions, flush, containerWidth, readers, sidebarVars, patientId, logs, labelZone, engines, isPlaying, currentTime,
                   duration, volume, isMuted, seekTarget>>

\* Faulty variant of HandleZoomOut: no lower limit.
HandleZoomOut_NoFloor ==
    /\ Quiet
    /\ currentFile # NoFile
    /\ zoomLevel' = zoomLevel - ZoomStep
    /\ UNCHANGED <<appVars, filterVars, aiRegions, flush, containerWidth, readers, sidebarVars, patientId, logs, labelZone, engines, isPlaying, currentTime,
                   duration, volume, isMuted, seekTarget>>

HandleZoomOut ==
    /\ Quiet
    /\ currentFile # NoFile
    /\ zoomLevel' = Max(zoomLevel - ZoomStep, ZoomMin)
    /\ UNCHANGED <<appVars, filterVars, aiRegions, flush, containerWidth, readers, sidebarVars, patientId, logs, labelZone, engines, isPlaying, currentTime,
                   duration, volume, isMuted, seekTarget>>

\* ---------------------------------------------------------- volume router
\* Faulty variant of Monitor: switching the monitored source also pauses playback.
Monitor_Pauses(src) ==
    /\ Quiet
    /\ currentFile # NoFile
    /\ src # activeAudioSource
    /\ src = "filtered" => (filteredAudioUrl # NoUrl /\ ~isProcessingFilter)
    /\ activeAudioSource' = src
    /\ isPlaying' = FALSE
    /\ UNCHANGED <<appVars, aiRegions, flush, containerWidth, readers, sidebarVars, patientId, logs, labelZone, filteredAudioUrl, isProcessingFilter, renders,
                   renderCount, currentTime, duration, volume, isMuted, zoomLevel, seekTarget>>
    /\ SyncEngines(View')

\* The Monitor buttons: setActiveAudioSource(src).  The filtered track's
\* button exists while its row is shown and is disabled during a render.
Monitor(src) ==
    /\ Quiet
    /\ currentFile # NoFile
    /\ src # activeAudioSource
    /\ src = "filtered" => (filteredAudioUrl # NoUrl /\ ~isProcessingFilter)
    /\ activeAudioSource' = src
    /\ UNCHANGED <<appVars, clockVars, aiRegions, flush, containerWidth, readers, sidebarVars, patientId, logs, labelZone, filteredAudioUrl,
                   isProcessingFilter, renders, renderCount>>
    /\ SyncEngines(View')

\* ------------------------------------------------------- offline filter
\* The aiFilterConfig effect after setAiFilterConfig(cfg): with a config and
\* a file, processOfflineAudio starts (setIsProcessingFilter(true), then the
\* awaits); otherwise setFilteredAudioUrl(null).
FilterConfigEffect(cfg) ==
    IF cfg /\ currentFile # NoFile
    THEN /\ renderCount < MaxRenders
         /\ isProcessingFilter' = TRUE
         /\ renders' = renders \cup {[id |-> renderCount + 1, file |-> currentFile]}
         /\ renderCount' = renderCount + 1
         /\ UNCHANGED filteredAudioUrl
    ELSE /\ filteredAudioUrl' = NoUrl
         /\ UNCHANGED <<isProcessingFilter, renders, renderCount>>

\* Faulty variant of RenderSucceed: the URL is published without the auto-switch.
RenderSucceed_NoSwitch(r) ==
    /\ Quiet
    /\ r \in renders
    /\ renders' = renders \ {r}
    /\ filteredAudioUrl' = r
    /\ isProcessingFilter' = FALSE
    /\ UNCHANGED <<appVars, clockVars, aiRegions, flush, containerWidth, readers, sidebarVars, patientId, logs, labelZone, renderCount, activeAudioSource>>
    /\ SyncEngines(View')

\* processOfflineAudio after its last await: the try block completes.
RenderSucceed(r) ==
    /\ Quiet
    /\ r \in renders
    /\ renders' = renders \ {r}
    /\ filteredAudioUrl' = r
    /\ activeAudioSource' = "filtered"
    /\ isProcessingFilter' = FALSE
    /\ UNCHANGED <<appVars, clockVars, aiRegions, flush, containerWidth, readers, sidebarVars, patientId, logs, labelZone, renderCount>>
    /\ SyncEngines(View')

\* Faulty variant of RenderFail: the finally block is missing.
RenderFail_NoFinally(r) ==
    /\ Quiet
    /\ r \in renders
    /\ renders' = renders \ {r}
    /\ Len(logs) < MaxLogs
    /\ logs' = Append(logs, ErrorEntry)
    /\ UNCHANGED labelZone
    /\ UNCHANGED <<appVars, clockVars, aiRegions, flush, containerWidth, readers, sidebarVars,
                   patientId, renderCount, filteredAudioUrl, activeAudioSource,
                   isProcessingFilter>>
    /\ SyncEngines(View')

\* processOfflineAudio when fetch, decode, render or encode throws: the
\* catch block logs the error, the finally block clears the flag.
RenderFail(r) ==
    /\ Quiet
    /\ r \in renders
    /\ renders' = renders \ {r}
    /\ Len(logs) < MaxLogs
    /\ logs' = Append(logs, ErrorEntry)
    /\ UNCHANGED labelZone
    /\ isProcessingFilter' = FALSE
    /\ UNCHANGED <<appVars, clockVars, aiRegions, flush, containerWidth, readers, sidebarVars,
                   patientId, renderCount, filteredAudioUrl, activeAudioSource>>
    /\ SyncEngines(View')

\* ------------------------------------------------------------ AI analysis
\* RightPanel.handleDeepAnalysis up to its first await.
StartAnalysis ==
    /\ Quiet
    /\ currentFile # NoFile
    /\ analysisStatus # "ANALYZING"
    /\ analysisStatus' = "ANALYZING"
    /\ aiAnalysisOutput' = <<>>
    /\ aiFilterConfig' = FALSE
    /\ aiRegions' = ParseEffect(<<>>, aiRegions)
    /\ IF aiFilterConfig THEN FilterConfigEffect(FALSE)
       ELSE UNCHANGED <<filteredAudioUrl, isProcessingFilter, renders, renderCount>>
    /\ logs' = ParseLogs(<<>>, aiRegions, logs)
    /\ UNCHANGED <<currentFile, fileCount, clinicalRegions, currentLabelFile, clockVars,
                   activeAudioSource, flush, containerWidth, readers, sidebarVars, patientId>>
    /\ ZoneSync
    /\ SyncEngines(View')

\* One iteration of the for await loop over result.stream.
StreamChunk(c) ==
    /\ Quiet
    /\ analysisStatus = "ANALYZING"
    /\ Len(aiAnalysisOutput) + Len(c) <= MaxTextLen
    /\ aiAnalysisOutput' = aiAnalysisOutput \o c
    /\ aiRegions' = ParseEffect(aiAnalysisOutput', aiRegions)
    /\ IF HasFilterJson(aiAnalysisOutput')
       THEN aiFilterConfig' = TRUE /\ FilterConfigEffect(TRUE)
       ELSE UNCHANGED <<aiFilterConfig, filteredAudioUrl, isProcessingFilter, renders,
                        renderCount>>
    /\ logs' = ParseLogs(aiAnalysisOutput', aiRegions, logs)
    /\ Len(logs') <= MaxLogs
    /\ UNCHANGED <<currentFile, fileCount, clinicalRegions, currentLabelFile, analysisStatus,
                   clockVars, activeAudioSource, flush, containerWidth, readers, sidebarVars,
                   patientId>>
    /\ ZoneSync
    /\ SyncEngines(View')

\* The stream ends, or a step of the analysis throws.
AnalysisEnd(ok) ==
    /\ Quiet
    /\ analysisStatus = "ANALYZING"
    /\ analysisStatus' = IF ok THEN "COMPLETED" ELSE "ERROR"
    /\ UNCHANGED <<currentFile, fileCount, clinicalRegions, currentLabelFile,
                   aiAnalysisOutput, aiFilterConfig, clockVars, filterVars, aiRegions,
                   engines, flush, containerWidth, readers, sidebarVars, patientId, logs, labelZone>>

\* -------------------------------------------------------- clinical labels
\* LabelControlZone.processFile with a file whose name does not end in
\* '.txt': the error message is set and nothing is read.
DropNonTxt ==
    /\ Quiet
    /\ currentFile # NoFile
    /\ currentLabelFile = NoLabel
    /\ labelZone' = [labelZone EXCEPT !.error = "format"]
    /\ UNCHANGED <<appVars, clockVars, filterVars, aiRegions, engines, flush, containerWidth,
                   readers, sidebarVars, patientId, logs>>

\* LabelControlZone.processFile up to reader.readAsText: a .txt file is
\* dropped on (or picked in) the label drop zone, which a TimelineTrack shows
\* while no label file is loaded.  handleDrop clears the error message first,
\* handleFileInput does not.
DropLabels(labelText) ==
    /\ Quiet
    /\ currentFile # NoFile
    /\ currentLabelFile = NoLabel
    /\ labelText \notin readers
    /\ Cardinality(readers) < MaxReaders
    /\ readers' = readers \cup {labelText}
    /\ \E e \in {"none", labelZone.error} : labelZone' = [labelZone EXCEPT !.error = e]
    /\ UNCHANGED <<appVars, clockVars, filterVars, aiRegions, engines, flush, containerWidth,
                   sidebarVars, patientId, logs>>

\* The error message after reader.onload for text: none is set for the
\* empty string (if (!text) return) nor by a zone that has been unmounted.
ErrorAfterRead(labelText) ==
    IF labelText = EmptyText \/ Len(parseLabelString(labelText)) # 0
       \/ labelText \in labelZone.stale
    THEN labelZone.error
    ELSE "noregions"

\* Faulty variant of ImportLabels: the parsed regions are merged into the
\* collection instead of replacing it.
ImportLabels_Merges(labelText) ==
    /\ Quiet
    /\ labelText \in readers
    /\ readers' = readers \ {labelText}
    /\ IF Len(parseLabelString(labelText)) = 0
       THEN UNCHANGED <<clinicalRegions, currentLabelFile>>
       ELSE /\ clinicalRegions' = clinicalRegions \o parseLabelString(labelText)
            /\ currentLabelFile' = LabelName(labelText)
    /\ UNCHANGED <<currentFile, fileCount, aiAnalysisOutput, aiFilterConfig, analysisStatus,
                   clockVars, filterVars, aiRegions, engines, flush, containerWidth,
                   sidebarVars, patientId, logs>>
    /\ labelZone' = IF Zone(currentFile', currentLabelFile', aiRegions')
                      = Zone(currentFile, currentLabelFile, aiRegions)
                    THEN [error |-> ErrorAfterRead(labelText),
                          stale |-> labelZone.stale \ {labelText}]
                    ELSE [error |-> "none", stale |-> readers']

\* reader.onload: an empty parse only sets the zone's error message, a
\* non-empty one goes to CenterStage.handleClinicalRegionsLoaded.
ImportLabels(labelText) ==
    /\ Quiet
    /\ labelText \in readers
    /\ readers' = readers \ {labelText}
    /\ IF Len(parseLabelString(labelText)) = 0
       THEN UNCHANGED <<clinicalRegions, currentLabelFile>>
       ELSE /\ clinicalRegions' = parseLabelString(labelText)
            /\ currentLabelFile' = LabelName(labelText)
    /\ UNCHANGED <<currentFile, fileCount, aiAnalysisOutput, aiFilterConfig, analysisStatus,
                   clockVars, filterVars, aiRegions, engines, flush, containerWidth,
                   sidebarVars, patientId, logs>>
    /\ labelZone' = IF Zone(currentFile', currentLabelFile', aiRegions')
                      = Zone(currentFile, currentLabelFile, aiRegions)
                    THEN [error |-> ErrorAfterRead(labelText),
                          stale |-> labelZone.stale \ {labelText}]
                    ELSE [error |-> "none", stale |-> readers']

\* CenterStage.handleClearClinicalRegions (the button of the loaded-labels view).
ClearLabels ==
    /\ Quiet
    /\ currentFile # NoFile
    /\ currentLabelFile # NoLabel
    /\ clinicalRegions' = <<>>
    /\ currentLabelFile' = NoLabel
    /\ UNCHANGED <<currentFile, fileCount, aiAnalysisOutput, aiFilterConfig, analysisStatus,
                   clockVars, filterVars, aiRegions, engines, flush, containerWidth, readers,
                   sidebarVars, patientId, logs>>
    /\ ZoneSync

\* ---------------------------------------------------------------- timeline
\* Pixel quantities are integers in quarter pixels (PxUnits per pixel), so
\* half of a width observed in half pixels is exact.
PxUnits == 4
\* Widths the ResizeObserver reports: 40 px, 30.5 px and 120 px.
Widths == {160, 122, 480}

\* Math.round on a quantity in quarter pixels: floor(x + 0.5) whole pixels.
RoundPx(x) == ((x + PxUnits \div 2) \div PxUnits) * PxUnits

\* TimelineTrack scrolling logic for time t, zoom z, duration d, width w.
CurrentPixel(t, z) == (t * z * PxUnits) \div UnitsPerSec
ContentWidth(d, z) == (d * z * PxUnits) \div UnitsPerSec
TotalScrollableWidth(d, z, w) == Max(w, ContentWidth(d, z))
MaxScroll(d, z, w) == Max(0, TotalScrollableWidth(d, z, w) - w)
HalfWidth(w) == w \div 2

\* Faulty variant of ScrollLeft: the end phase is missing and the viewport
\* keeps centring the cursor.
ScrollLeft_NoEndPhase(t, z, d, w) ==
    IF CurrentPixel(t, z) < HalfWidth(w) THEN RoundPx(0)
    ELSE RoundPx(CurrentPixel(t, z) - HalfWidth(w))

ScrollLeft(t, z, d, w) ==
    IF CurrentPixel(t, z) < HalfWidth(w) THEN RoundPx(0)
    ELSE IF CurrentPixel(t, z) > TotalScrollableWidth(d, z, w) - HalfWidth(w)
         THEN RoundPx(MaxScroll(d, z, w))
    ELSE RoundPx(CurrentPixel(t, z) - HalfWidth(w))

\* Faulty variant of CursorLeft: the end phase measures the cursor from
\* the start of the content.
CursorLeft_EndFromStart(t, z, d, w) ==
    IF CurrentPixel(t, z) < HalfWidth(w) THEN CurrentPixel(t, z)
    ELSE IF CurrentPixel(t, z) > TotalScrollableWidth(d, z, w) - HalfWidth(w)
         THEN CurrentPixel(t, z)
    ELSE HalfWidth(w)

CursorLeft(t, z, d, w) ==
    IF CurrentPixel(t, z) < HalfWidth(w) THEN CurrentPixel(t, z)
    ELSE IF CurrentPixel(t, z) > TotalScrollableWidth(d, z, w) - HalfWidth(w)
         THEN CurrentPixel(t, z) - MaxScroll(d, z, w)
    ELSE HalfWidth(w)

\* The values of the current render.
scrollLeft == ScrollLeft(currentTime, zoomLevel, duration, containerWidth)
cursorLeft == CursorLeft(currentTime, zoomLevel, duration, containerWidth)

\* The ResizeObserver callback: setContainerWidth(entry.contentRect.width).
Resize(w) ==
    /\ Quiet
    /\ currentFile # NoFile
    /\ w # containerWidth
    /\ containerWidth' = w
    /\ UNCHANGED <<appVars, clockVars, filterVars, aiRegions, engines, flush, readers, sidebarVars, patientId, logs, labelZone>>

\* --------------------------------------------------------- specifications
\* Every specification below is a session of the same program restricted to
\* a subset of its commands, so that each can be explored exhaustively.

\* The audio engines' own events.
EngineEvents ==
    \/ \E tr \in Tracks : EngineReady(tr)
    \/ FlushReady
    \/ Tick
    \/ \E tr \in Tracks : TimeUpdate(tr)

\* An analysis run that streams only the filter recommendation, and the
\* successful completion of the renders it starts.
FilterRun ==
    \/ StartAnalysis
    \/ StreamChunk(ChunkJson)
    \/ \E r \in renders : RenderSucceed(r)

\* Seeking: demo loads with their label regions, every caller of handleSeek,
\* play/pause and the raw engine's events.
NextSeek ==
    \/ \E lt \in LabelTexts : LoadDemo(lt)
    \/ ClearFile
    \/ EngineEvents
    \/ \E p \in Percents : SeekScrub(p)
    \/ SkipBack
    \/ SkipForward
    \/ \E r \in ShownRegions : RegionClick(r)
    \/ \E tr \in Tracks, t \in 0..(3 * UnitsPerSec) : Interaction(tr, t)
    \/ TogglePlay

SpecSeek == Init /\ [][NextSeek]_vars

\* Volume router: uploads, volume and mute, Monitor switches, the scrubber,
\* play/pause and filter renders that succeed or fail.
NextRouter ==
    \/ ProcessFiles
    \/ ClearFile
    \/ \E tr \in Tracks : EngineReady(tr)
    \/ FlushReady
    \/ \E p \in Percents : SeekScrub(p)
    \/ TogglePlay
    \/ \E v \in Volumes : SetVolume(v)
    \/ ToggleMute
    \/ \E src \in Tracks : Monitor(src)
    \/ FilterRun
    \/ \E r \in renders : RenderFail(r)

SpecRouter == Init /\ [][NextRouter]_vars

\* File lifecycle: demo loads and clears in sessions that play,
\* seek, zoom, stream analysis text and render a filter.
NextReset ==
    \/ LoadDemo(LabelExample)
    \/ ClearFile
    \/ \E tr \in Tracks : EngineReady(tr)
    \/ FlushReady
    \/ SeekScrub(50)
    \/ TogglePlay
    \/ HandleZoomIn
    \/ StartAnalysis
    \/ \E c \in Chunks : StreamChunk(c)
    \/ \E r \in renders : RenderSucceed(r)

SpecReset == Init /\ [][NextReset]_vars

\* Timeline viewport: uploads, the raw engine's events, play/pause, the
\* scrubber, zoom and resizes of the timeline container.
NextScroll ==
    \/ ProcessFiles
    \/ ClearFile
    \/ EngineReady("raw")
    \/ FlushReady
    \/ Tick
    \/ TimeUpdate("raw")
    \/ \E p \in Percents : SeekScrub(p)
    \/ TogglePlay
    \/ HandleZoomIn
    \/ HandleZoomOut
    \/ \E w \in Widths : Resize(w)

SpecScroll == Init /\ [][NextScroll]_vars

\* Clinical labels: demo loads, label files dropped and read,
\* the clear button, and an analysis that streams timestamp pairs.
NextLabels ==
    \/ \E lt \in LabelTexts : LoadDemo(lt)
    \/ ClearFile
    \/ DropNonTxt
    \/ \E lt \in LabelInputs : DropLabels(lt)
    \/ \E lt \in LabelInputs : ImportLabels(lt)
    \/ ClearLabels
    \/ StartAnalysis
    \/ \E c \in {ChunkPair, ChunkRev} : StreamChunk(c)

SpecLabels == Init /\ [][NextLabels]_vars

\* AI regions: uploads, clears and analysis runs that stream prose in
\* chunks and end normally or with an error.
NextAi ==
    \/ ProcessFiles
    \/ ClearFile
    \/ StartAnalysis
    \/ \E c \in AiChunks : StreamChunk(c)
    \/ \E ok \in BOOLEAN : AnalysisEnd(ok)

SpecAi == Init /\ [][NextAi]_vars

\* Demo cases: loads from the sidebar whose fetches succeed or fail, with
\* uploads, clears and the raw engine's start-up in between.
NextDemo ==
    \/ \E c \in DemoCases : LoadRemoteCase(c)
    \/ \E ok \in BOOLEAN : AudioFetched(ok)
    \/ \E ok \in BOOLEAN : LabelsFetched(ok)
    \/ ProcessFiles
    \/ ClearFile
    \/ ClearLabels
    \/ EngineReady("raw")
    \/ FlushReady
    \/ TogglePlay

SpecDemo == Init /\ [][NextDemo]_vars

\* Offline filter: analysis runs that stream the filter recommendation,
\* renders that succeed or fail, the monitor and mute buttons.
NextFilter ==
    \/ ProcessFiles
    \/ ClearFile
    \/ \E tr \in Tracks : EngineReady(tr)
    \/ FlushReady
    \/ \E src \in Tracks : Monitor(src)
    \/ ToggleMute
    \/ StartAnalysis
    \/ StreamChunk(ChunkJson)
    \/ \E ok \in BOOLEAN : AnalysisEnd(ok)
    \/ \E r \in renders : RenderSucceed(r)
    \/ \E r \in renders : RenderFail(r)

SpecFilter == Init /\ [][NextFilter]_vars

\* Seek commands that every listening track consumes at once, playback,
\* and a filter run that mounts the filtered track afterwards.
NextOneShot ==
    \/ ProcessFiles
    \/ EngineEvents
    \/ \E p \in Percents : SeekAllReady(p)
    \/ TogglePlay
    \/ FilterRun

SpecOneShot == Init /\ [][NextOneShot]_vars

\* Driver and follower: uploads, play/pause, the scrubber, Monitor switches,
\* filter renders and the events of both engines.
Next ==
    \/ ProcessFiles
    \/ ClearFile
    \/ EngineEvents
    \/ \E p \in Percents : SeekScrub(p)
    \/ TogglePlay
    \/ \E src \in Tracks : Monitor(src)
    \/ FilterRun

Spec == Init /\ [][Next]_vars

\* ------------------------------------------------------------------ C1
\* C1: a time-update event of the track that is not the activeAudioSource
\* (the FOLLOWER) never changes the master currentTime.
C1_FollowerNeverSetsClock ==
    [][\A tr \in Tracks :
         (TimeUpdate(tr) /\ tr # activeAudioSource) => currentTime' = currentTime]_vars

\* ------------------------------------------------------------------ C2
\* C2: the volume handed to each track is isMuted ? 0 : (the track is the
\* activeAudioSource ? volume : 0); so with a file loaded, the filtered
\* track present, isMuted false and volume > 0, exactly the track matching
\* activeAudioSource has non-zero effective volume, and with isMuted true
\* both tracks get 0.
EffectiveVolume(tr) ==
    IF isMuted THEN 0 ELSE (IF tr = activeAudioSource THEN volume ELSE 0)
C2_EffectiveVolumeRule ==
    /\ \A tr \in Tracks : VolumeProp(tr, View) = EffectiveVolume(tr)
    /\ (Mounted("filtered", View) /\ ~isMuted /\ volume > 0)
       => {tr \in Tracks : VolumeProp(tr, View) # 0} = {activeAudioSource}
    /\ isMuted => \A tr \in Tracks : VolumeProp(tr, View) = 0
\* Reached: a file is loaded, both tracks are present, the session is
\* unmuted with a non-zero volume, and only the monitored filtered track
\* is handed a non-zero volume.
C2_Witness ==
    /\ currentFile # NoFile
    /\ Mounted("filtered", View)
    /\ ~isMuted
    /\ volume > 0
    /\ activeAudioSource = "filtered"
    /\ VolumeProp("filtered", View) = volume
    /\ VolumeProp("raw", View) = 0

\* ------------------------------------------------------------------ C3
\* C3: in every reachable state at most one loaded audio engine has a
\* non-zero applied volume, the state right after an engine's 'ready' event
\* included.
C3_AtMostOneAudible ==
    Cardinality({tr \in Tracks : Loaded(engines[tr]) /\ engines[tr].vol > 0}) <= 1

\* ------------------------------------------------------------------ C4
\* C4: after handleSeek(t), for every caller (scrubber, skip buttons, region
\* click, waveform interaction), currentTime and seekTarget both equal
\* min(max(t, 0), duration).
Clamp(t) == Min(Max(t, 0), duration)
SeekStored(t) == currentTime' = Clamp(t) /\ seekTarget' = Clamp(t)
C4_SeekClamps ==
    [][/\ \A p \in Percents : SeekScrub(p) => SeekStored((p * duration) \div 100)
       /\ SkipBack => SeekStored(Max(0, currentTime - SkipUnits))
       /\ SkipForward => SeekStored(Min(duration, currentTime + SkipUnits))
       /\ \A r \in ShownRegions : RegionClick(r) => SeekStored(r.start)
       /\ \A tr \in Tracks, t \in 0..(3 * UnitsPerSec) : Interaction(tr, t) => SeekStored(t)
      ]_vars

\* ------------------------------------------------------------------ C5
\* C5: in every reachable state 0 <= currentTime <= duration.
C5_ClockInRange == 0 <= currentTime /\ currentTime <= duration

\* ------------------------------------------------------------------ C6
\* C6: switching the driver causes no time discontinuity.  Whenever the
\* clock agrees with the loaded engine of the outgoing driver (within one
\* time-update tick), the engine of the incoming driver is positioned
\* within one tick of currentTime: at a Monitor click or auto-switch that
\* makes a loaded engine the driver, and, for a filtered track created
\* during playback, when the engine of the new driver finishes loading.
Aligned(e, t) == Abs(e.time - t) <= TickUnits
C6_NoJumpOnSwitch ==
    [][/\ (/\ activeAudioSource' # activeAudioSource
           /\ currentFile' = currentFile
           /\ Loaded(engines[activeAudioSource])
           /\ Aligned(engines[activeAudioSource], currentTime)
           /\ Loaded(engines'[activeAudioSource']))
          => Aligned(engines'[activeAudioSource'], currentTime')
       /\ (/\ FlushReady
           /\ flush = activeAudioSource
           /\ Loaded(engines[Other(flush)])
           /\ Aligned(engines[Other(flush)], currentTime))
          => Aligned(engines'[activeAudioSource], currentTime')
      ]_vars

\* ------------------------------------------------------------------ C7
\* C7: a change of activeAudioSource by a Monitor click or by the auto-switch
\* (any change while the file stays the same) leaves currentTime, isPlaying,
\* seekTarget, duration, volume and isMuted unchanged.
C7_SwitchFrame ==
    [][(activeAudioSource' # activeAudioSource /\ currentFile' = currentFile)
       => UNCHANGED <<currentTime, isPlaying, seekTarget, duration, volume, isMuted>>]_vars
\* Reached: the filtered track is monitored in a session that is playing,
\* has sought to a non-zero time and is muted.
C7_Witness ==
    /\ activeAudioSource = "filtered"
    /\ isPlaying
    /\ currentTime > 0
    /\ seekTarget # NULL
    /\ duration > 0
    /\ isMuted

\* ------------------------------------------------------------------ C8
\* C8: activeAudioSource is "raw" after every change of the current file, and
\* becomes "filtered" in the very step in which a new filtered audio URL is
\* published.
C8_RawOnLoadFilteredOnRender ==
    [][/\ currentFile' # currentFile => activeAudioSource' = "raw"
       /\ (filteredAudioUrl' # filteredAudioUrl /\ filteredAudioUrl' # NoUrl)
          => activeAudioSource' = "filtered"
      ]_vars
\* Reached: a render of the current file has completed and its result is
\* the monitored source.
C8_Witness ==
    /\ currentFile # NoFile
    /\ filteredAudioUrl # NoUrl
    /\ filteredAudioUrl.file = currentFile
    /\ activeAudioSource = "filtered"
    /\ ~isProcessingFilter

\* ------------------------------------------------------------------ C9
\* C9: every change of the current file (load, replace or clear) leaves
\* isPlaying = false, currentTime = 0, duration = 0, seekTarget = null,
\* filteredAudioUrl = null, activeAudioSource = "raw" and zoomLevel = 50.
C9_FileChangeResets ==
    [][currentFile' # currentFile
       => /\ isPlaying' = FALSE
          /\ currentTime' = 0
          /\ duration' = 0
          /\ seekTarget' = NULL
          /\ filteredAudioUrl' = NoUrl
          /\ activeAudioSource' = "raw"
          /\ zoomLevel' = ZoomInit
      ]_vars
\* Reached: a second file has just replaced one for which a filter had been
\* rendered, and everything is back at its initial value.
C9_Witness ==
    /\ currentFile = 2
    /\ renderCount > 0
    /\ ~engines["raw"].ready
    /\ ~isPlaying /\ currentTime = 0 /\ duration = 0 /\ seekTarget = NULL
    /\ filteredAudioUrl = NoUrl /\ activeAudioSource = "raw" /\ zoomLevel = ZoomInit

\* ----------------------------------------------------------------- C10
\* C10: after the current file changes, aiRegions is empty.
C10_FileChangeClearsAiRegions ==
    [][currentFile' # currentFile => aiRegions' = <<>>]_vars

\* ----------------------------------------------------------------- C11
\* C11: an offline filter render started for a file that has since been
\* replaced or cleared, when it completes, neither sets filteredAudioUrl
\* nor switches activeAudioSource.
C11_LateRenderIgnored ==
    [][\A r \in renders :
         (RenderSucceed(r) /\ r.file # currentFile)
         => (filteredAudioUrl' = filteredAudioUrl
             /\ activeAudioSource' = activeAudioSource)]_vars

\* ----------------------------------------------------------------- C12
\* C12: whenever 0 <= currentTime <= duration, zoomLevel > 0 and
\* containerWidth > 0, the rounded scroll offset of the timeline satisfies
\* 0 <= scrollLeft <= maxScroll.
C12_ScrollInRange ==
    (0 <= currentTime /\ currentTime <= duration /\ zoomLevel > 0 /\ containerWidth > 0)
    => (0 <= scrollLeft /\ scrollLeft <= MaxScroll(duration, zoomLevel, containerWidth))

\* ----------------------------------------------------------------- C13
\* C13: when currentTime moves within [0, duration] at fixed zoomLevel,
\* duration and containerWidth, cursorLeft changes by no more than
\* currentPixel does, across the phase transitions too.
C13_CursorContinuous ==
    [][(/\ currentTime' # currentTime
        /\ zoomLevel' = zoomLevel /\ duration' = duration
        /\ containerWidth' = containerWidth /\ containerWidth > 0
        /\ 0 <= currentTime /\ currentTime <= duration
        /\ 0 <= currentTime' /\ currentTime' <= duration)
       => Abs(cursorLeft' - cursorLeft)
          <= Abs(CurrentPixel(currentTime', zoomLevel) - CurrentPixel(currentTime, zoomLevel))
      ]_vars
\* Reached: the playhead is in the end phase of a timeline wider than its
\* container, having passed through the start and middle phases.
C13_Witness ==
    /\ containerWidth > 0
    /\ currentTime = duration
    /\ MaxScroll(duration, zoomLevel, containerWidth) > 0
    /\ CurrentPixel(currentTime, zoomLevel)
         > TotalScrollableWidth(duration, zoomLevel, containerWidth) - HalfWidth(containerWidth)
    /\ cursorLeft = containerWidth

\* ----------------------------------------------------------------- C14
\* C14: after any sequence of zoom-in and zoom-out commands from the
\* initial level 50, 10 <= zoomLevel <= 500; and a zoom command leaves
\* currentTime, seekTarget, isPlaying and duration unchanged.
C14_ZoomClampedAndFramed ==
    [][/\ 10 <= zoomLevel' /\ zoomLevel' <= 500
       /\ (HandleZoomIn \/ HandleZoomOut)
          => UNCHANGED <<currentTime, seekTarget, isPlaying, duration>>
      ]_vars
\* Reached: zoomed out to the lower limit in a session that is playing and
\* has sought to a non-zero time.
C14_Witness ==
    /\ zoomLevel = 10
    /\ isPlaying
    /\ currentTime > 0
    /\ seekTarget # NULL
    /\ duration > 0

\* ----------------------------------------------------------------- C15
\* C15: parseLabelString skips every empty line and every line with fewer
\* than 4 parseable fields, and for each remaining line emits a Wheeze
\* region iff its wheeze flag is 1 and a Crackle region iff its crackle flag
\* is 1, each with the line's start and end; the two-line example yields
\* exactly one Wheeze region (0.05, 0.80) and one Crackle region (1.20, 1.50).
Parseable(line) == Cardinality({k \in 1..Len(line) : line[k].num})
Kept(line) == Len(line) # 0 /\ Parseable(line) >= 4
Emitted(line) ==
    IF ~Kept(line) THEN {}
    ELSE {[start |-> line[1].val, end |-> line[2].val, content |-> c] :
            c \in {x \in {"Wheeze", "Crackle"} :
                     \/ x = "Wheeze" /\ line[4].val = 1
                     \/ x = "Crackle" /\ line[3].val = 1}}
ExpectedRegions(text) == UNION {Emitted(text[k]) : k \in 1..Len(text)}
Triples(regs) ==
    {[start |-> regs[k].start, end |-> regs[k].end, content |-> regs[k].content] :
       k \in 1..Len(regs)}
ParsesAsSpecified(text) ==
    /\ Triples(parseLabelString(text)) = ExpectedRegions(text)
    /\ Len(parseLabelString(text)) = Cardinality(ExpectedRegions(text))
C15_LabelParse ==
    [][/\ \A lt \in LabelInputs :
            (ImportLabels(lt) /\ clinicalRegions' # clinicalRegions)
            => (ParsesAsSpecified(lt) /\ Triples(clinicalRegions') = ExpectedRegions(lt))
       /\ \A lt \in LabelTexts :
            HandleLoadDemo(lt)
            => (ParsesAsSpecified(lt) /\ Triples(clinicalRegions') = ExpectedRegions(lt))
       /\ HandleLoadDemo(LabelExample)
          => Triples(clinicalRegions') = {[start |-> 1, end |-> 16, content |-> "Wheeze"],
                                          [start |-> 24, end |-> 30, content |-> "Crackle"]}
      ]_vars

\* ----------------------------------------------------------------- C16
\* C16: every region held in the clinical collection or in the AI
\* collection has end > start.
C16_RegionsWellFormed ==
    /\ \A k \in 1..Len(clinicalRegions) : clinicalRegions[k].end > clinicalRegions[k].start
    /\ \A k \in 1..Len(aiRegions) : aiRegions[k].end > aiRegions[k].start

\* ----------------------------------------------------------------- C17
\* C17: a successful label import replaces the whole clinical collection
\* with the newly parsed regions and sets currentLabelFile to the imported
\* file's name; the clear command empties the collection and sets
\* currentLabelFile to null; neither touches aiRegions.
C17_ImportReplacesClearEmpties ==
    [][/\ \A lt \in LabelInputs :
            (ImportLabels(lt) /\ Len(parseLabelString(lt)) # 0)
            => /\ Triples(clinicalRegions') = Triples(parseLabelString(lt))
               /\ Len(clinicalRegions') = Len(parseLabelString(lt))
               /\ currentLabelFile' = LabelName(lt)
               /\ aiRegions' = aiRegions
       /\ \A lt \in LabelTexts :
            HandleLoadDemo(lt)
            => /\ Triples(clinicalRegions') = Triples(parseLabelString(lt))
               /\ Len(clinicalRegions') = Len(parseLabelString(lt))
               /\ currentLabelFile' = LabelName(lt)
       /\ ClearLabels
          => /\ clinicalRegions' = <<>>
             /\ currentLabelFile' = NoLabel
             /\ aiRegions' = aiRegions
      ]_vars
\* Reached: in the second file's session a dropped one-line label file
\* has been imported, its Crackle region is the whole clinical collection,
\* and AI regions are present.
C17_Witness ==
    /\ currentLabelFile = "labels.txt"
    /\ Len(clinicalRegions) = 1
    /\ clinicalRegions[1].content = "Crackle"
    /\ Len(aiRegions) > 0
    /\ readers = {}
    /\ fileCount = MaxFiles

\* ----------------------------------------------------------------- C18
\* C18: AI region parsing is idempotent: re-running the parse on the
\* accumulated text leaves aiRegions unchanged; the regions have distinct
\* ids derived from (start, end) and none has end <= start; and the region
\* set depends only on the text, not on the chunks it arrived in (two
\* sessions with the same text have the same regions: text to which one
\* more chunk is appended gives the regions of the concatenation).
IdOf(r) == <<"ai-region", r.start \div UnitsPerSec, r.end \div UnitsPerSec>>
C18_ParseIdempotent ==
    /\ ParseEffect(aiAnalysisOutput, aiRegions) = aiRegions
    /\ \A j, k \in 1..Len(aiRegions) : j # k => aiRegions[j].id # aiRegions[k].id
    /\ \A k \in 1..Len(aiRegions) :
         aiRegions[k].id = IdOf(aiRegions[k]) /\ aiRegions[k].end > aiRegions[k].start
    /\ \A c \in AiChunks :
         ParseEffect(aiAnalysisOutput \o c, aiRegions) = ParseEffect(aiAnalysisOutput \o c, <<>>)
\* Reached: the same pair was streamed twice and is held once.
C18_Witness ==
    /\ aiAnalysisOutput = ChunkPair \o ChunkPair
    /\ Len(aiRegions) = 1
    /\ aiRegions[1].start = 1 * UnitsPerSec
    /\ aiRegions[1].end = 3 * UnitsPerSec

\* ----------------------------------------------------------------- C19
\* C19: while the AI text grows by appending, every region parsed from the
\* shorter text is among the regions parsed from the longer one, and an
\* incomplete timestamp pair creates no region: after the chunk "at 0:0"
\* aiRegions is empty, and after the following chunk "2 - 0:05" it holds
\* exactly the region from 2 s to 5 s.
C19_PrefixMonotone ==
    [][/\ \A c \in AiChunks :
            StreamChunk(c) => Triples(aiRegions) \subseteq Triples(aiRegions')
       /\ aiAnalysisOutput' = ChunkAt => aiRegions' = <<>>
       /\ (aiAnalysisOutput = ChunkAt /\ StreamChunk(ChunkTail))
          => Triples(aiRegions') = {[start |-> 2 * UnitsPerSec, end |-> 5 * UnitsPerSec,
                                     content |-> "AI Diagnosis"]}
      ]_vars
\* Reached: the two chunks of the example have arrived and the region from
\* 2 s to 5 s exists.
C19_Witness ==
    /\ aiAnalysisOutput = ChunkAt \o ChunkTail
    /\ Len(aiRegions) = 1
    /\ aiRegions[1].start = 2 * UnitsPerSec
    /\ aiRegions[1].end = 5 * UnitsPerSec

\* ----------------------------------------------------------------- C20
\* C20: loadRemoteCase starts the label fetch only after the audio fetch
\* succeeded; it commits the demo case (current file, clinical regions,
\* label file name, patient id) only when the label fetch has succeeded too;
\* when either fetch fails, currentFile, clinicalRegions and currentLabelFile
\* are unchanged and an alert is raised; in both outcomes loadingCase ends
\* as null.
C20_DemoLoadAllOrNothing ==
    [][/\ (loadPhase' = "labels" /\ loadPhase # "labels")
          => (loadPhase = "audio" /\ AudioFetched(TRUE) /\ alertCount' = alertCount)
       /\ (\E lt \in LabelTexts : HandleLoadDemo(lt))
          => /\ loadPhase = "labels"
             /\ LabelsFetched(TRUE)
             /\ currentFile' # NoFile /\ currentFile' # currentFile
             /\ clinicalRegions' = parseLabelString(CaseLabels(loadingCase))
             /\ currentLabelFile' = LabelName(CaseLabels(loadingCase))
             /\ patientId' = CasePatient(loadingCase)
       /\ (AudioFetched(FALSE) \/ LabelsFetched(FALSE))
          => /\ UNCHANGED <<currentFile, clinicalRegions, currentLabelFile, patientId>>
             /\ alertCount' = alertCount + 1
       /\ (loadPhase # "idle" /\ loadPhase' = "idle") => loadingCase' = NoCase
       /\ loadingCase' # NoCase <=> loadPhase' # "idle"
      ]_vars
\* Reached: after a failed load that raised an alert, the second demo case
\* has been committed and loadingCase is null again.
C20_Witness ==
    /\ alertCount > 0
    /\ loadingCase = NoCase
    /\ loadPhase = "idle"
    /\ currentFile # NoFile
    /\ currentLabelFile = LabelName(LabelLate)
    /\ clinicalRegions = parseLabelString(LabelLate)
    /\ patientId = CasePatient("Case 2")

\* ----------------------------------------------------------------- C21
\* C21: an offline filter render that fails sets no filteredAudioUrl and
\* does not switch activeAudioSource, appends an error entry to the log and
\* leaves isProcessingFilter = false; the filtered track exists only while
\* filteredAudioUrl is non-null.
C21_FailedRenderLeavesNoTrack ==
    [][/\ \A r \in renders :
            RenderFail(r)
            => /\ filteredAudioUrl' = filteredAudioUrl
               /\ activeAudioSource' = activeAudioSource
               /\ logs' = Append(logs, ErrorEntry)
               /\ ~isProcessingFilter'
       /\ engines'["filtered"].exists => filteredAudioUrl' # NoUrl
      ]_vars
\* Reached: a render has failed while no filtered audio existed; the error
\* is in the log, the flag is down and there is no filtered track.
C21_Witness ==
    /\ currentFile # NoFile
    /\ renderCount > 0
    /\ renders = {}
    /\ logs = <<ErrorEntry>>
    /\ filteredAudioUrl = NoUrl
    /\ ~isProcessingFilter
    /\ ~engines["filtered"].exists

\* ----------------------------------------------------------------- C22
\* The three-phase rule as the claim words it, in quarter pixels.
PhaseRule(cp, total, maxScroll, half) ==
    IF cp < half THEN <<0, cp>>
    ELSE IF cp > total - half THEN <<maxScroll, cp - maxScroll>>
    ELSE <<cp - half, half>>
ThreePhase ==
    PhaseRule(CurrentPixel(currentTime, zoomLevel),
              TotalScrollableWidth(duration, zoomLevel, containerWidth),
              MaxScroll(duration, zoomLevel, containerWidth),
              HalfWidth(containerWidth))
\* The claim as worded: the offset the timeline applies is the rule's value.
C22_UnroundedRule ==
    scrollLeft = ThreePhase[1] /\ cursorLeft = ThreePhase[2]
\* C22: TimelineTrack maps (currentTime, zoomLevel, duration, containerWidth)
\* to (scrollLeft, cursorLeft) by the three-phase rule, scrollLeft being the
\* rule's value rounded to the nearest whole pixel; when duration * zoomLevel
\* <= containerWidth, scrollLeft is 0 and cursorLeft = currentPixel for every
\* currentTime.
C22_ThreePhaseRule ==
    /\ scrollLeft = RoundPx(ThreePhase[1])
    /\ cursorLeft = ThreePhase[2]
    /\ ContentWidth(duration, zoomLevel) <= containerWidth
       => /\ scrollLeft = 0
          /\ cursorLeft = CurrentPixel(currentTime, zoomLevel)
\* Reached: the end phase of a recording wider than the viewport, at a
\* width whose maxScroll is not a whole pixel.
C22_Witness ==
    /\ containerWidth > 0
    /\ duration > 0
    /\ ContentWidth(duration, zoomLevel) > containerWidth
    /\ CurrentPixel(currentTime, zoomLevel)
         > TotalScrollableWidth(duration, zoomLevel, containerWidth) - HalfWidth(containerWidth)
    /\ scrollLeft # MaxScroll(duration, zoomLevel, containerWidth)
    /\ cursorLeft = CurrentPixel(currentTime, zoomLevel)
                      - MaxScroll(duration, zoomLevel, containerWidth)

\* ----------------------------------------------------------------- C23
\* C23: seekTarget is a one-shot command: when every listening track
\* consumed each seek as it was issued, an engine that becomes ready later
\* is not repositioned by an old seek target.
C23_SeekTargetOneShot ==
    [][FlushReady => engines'[flush].time = engines[flush].time]_vars

\* ----------------------------------------------------------------- C24
\* C24: togglePlay flips isPlaying whether or not the engines are ready; a
\* track whose engine is not ready issues no play or pause to it; when an
\* engine becomes ready it is brought to the isPlaying value of that moment.
C24_PlayToleratesUnreadyEngine ==
    [][/\ TogglePlay
          => /\ isPlaying' = ~isPlaying
             /\ \A tr \in Tracks :
                  (engines[tr].exists /\ ~engines[tr].ready) => engines'[tr] = engines[tr]
       /\ FlushReady => engines'[flush].playing = isPlaying
      ]_vars
\* Reached: play was pressed while the raw engine was loading; the engine
\* has just emitted 'ready' and is not playing yet.
C24_Witness ==
    /\ flush = "raw"
    /\ isPlaying
    /\ engines["raw"].ready
    /\ ~engines["raw"].playing

\* ----------------------------------------------------------------- C25
\* C25: while an analysis streams, a 'Gemini found N temporal anomalies'
\* entry is appended to the log exactly in the text updates in which the
\* parsed region set grew, once per such update and with N the new number
\* of regions; an update that leaves the region set unchanged, or that
\* empties it, appends nothing.  (A file change empties the log and
\* aiRegions before the effect runs again and is not a text update.)
C25_RegionChangeLoggedOnce ==
    [][currentFile' = currentFile /\ aiAnalysisOutput' # aiAnalysisOutput
       => IF Len(aiRegions') > Len(aiRegions)
          THEN logs' = Append(logs, FoundEntry(Len(aiRegions')))
          ELSE logs' = logs
      ]_vars
\* Reached: a second analysis run of the same file has found two regions in
\* two additions after the first run had logged one.
C25_Witness ==
    /\ analysisStatus = "ANALYZING"
    /\ Len(aiRegions) = 2
    /\ logs = <<FoundEntry(1), FoundEntry(1), FoundEntry(2)>>

\* ----------------------------------------------------------------- C26
\* C26: whenever activeAudioSource is "filtered" a filtered track exists
\* (filteredAudioUrl is non-null), so that with a file loaded, isMuted false
\* and volume > 0 some mounted track is handed a non-zero volume.
C26_ActiveSourceHasTrack ==
    /\ activeAudioSource = "filtered" => filteredAudioUrl # NoUrl
    /\ (currentFile # NoFile /\ ~isMuted /\ volume > 0)
       => \E tr \in Tracks : Mounted(tr, View) /\ VolumeProp(tr, View) > 0

\* ----------------------------------------------------------------- C27
\* C27: every seek command reaches the engines: after handleSeek(t) with
\* both engines ready, each engine farther than the tolerance from t is
\* repositioned to t, also when t equals the previous seek target.
C27_EverySeekReachesEngines ==
    [][((\E p \in Percents : SeekAllReady(p)) /\ \A tr \in Tracks : Loaded(engines[tr]))
       => \A tr \in Tracks :
            Abs(engines[tr].time - seekTarget') > SeekTolerance
            => engines'[tr].time = seekTarget'
      ]_vars

\* ----------------------------------------------------------------- C28
\* C28: the master isPlaying flag agrees with the engines: once the
\* callbacks of the last event have run, isPlaying = true with a ready
\* driver engine implies that this engine is playing (in particular
\* isPlaying is false after the driver reached the end of the audio).
C28_PlayingFlagAgrees ==
    (Quiet /\ isPlaying /\ Loaded(engines[activeAudioSource]))
    => engines[activeAudioSource].playing

\* ----------------------------------------------------------------- C29
\* C29: isProcessingFilter is true exactly while an offline filter render
\* is in flight, also when filter requests overlap, and a new render starts
\* only after the previous filtered state (filteredAudioUrl) was reset.
C29_ProcessingFlagTracksRenders ==
    [][/\ isProcessingFilter' <=> (renders' # {})
       /\ (renders' \ renders # {}) => filteredAudioUrl' = NoUrl
      ]_vars

\* ----------------------------------------------------------------- C30
\* C30: a rejected label import changes nothing: when the dropped file is
\* not a .txt file, or its text parses to zero regions, clinicalRegions and
\* currentLabelFile keep their values and the zone's error message is set.
C30_RejectedImportChangesNothing ==
    [][/\ DropNonTxt
          => /\ UNCHANGED <<clinicalRegions, currentLabelFile, readers>>
             /\ labelZone'.error # "none"
       /\ \A lt \in LabelInputs :
            (ImportLabels(lt) /\ Len(parseLabelString(lt)) = 0)
            => /\ UNCHANGED <<clinicalRegions, currentLabelFile>>
               /\ labelZone'.error # "none"
      ]_vars

====
